---- MODULE Spec2Model ----
(***************************************************************************)
(* Model of the exclusive-reconfiguration coordinator of the Qwen3-TTS     *)
(* demo (src/qwen-tts/demo.py): the shared _MODEL_STATE dictionary, the    *)
(* _use_model context manager used by every generation handler, and        *)
(* _reload_model, which drains the in-flight jobs and swaps the engine.    *)
(*                                                                         *)
(* Every access to _MODEL_STATE in demo.py happens inside                  *)
(* `with _STATE_COND:`, so each locked region is one atomic action; a      *)
(* region that calls _STATE_COND.wait() is split at the wait, because the  *)
(* lock is released there and re-acquired after notify_all().              *)
(***************************************************************************)
EXTENDS Integers, FiniteSets, Sequences, TLC

\* ---------------------------------------------------------------- bounds
NumJobs == 2
NumReloads == 2
MaxApiLoads == 2

Jobs == 1..NumJobs
Reloads == 1..NumReloads

\* ------------------------------------------------------------ data model
\* Python's None for the engine reference.
None == 0

\* Identity of an engine object: 1 is the engine main() loaded, NewEngine(r)
\* the one the from_pretrained call of reload r returns.
NewEngine(r) == r + 1

\* Checkpoint arguments a caller can pass to _reload_model.
CkptInputs == {"", " ", "VoiceDesign"}

\* The checkpoint given on the command line, which main() loads before the
\* demo is served.
InitialCkpt == "CustomVoice"

\* (ckpt or "").strip()
Strip_nothing(s) == s
Strip(s) == IF s = " " THEN "" ELSE s

\* tts.model.tts_model_type of the engine built from a checkpoint.
tts_model_type(ckpt) ==
    CASE ckpt = "CustomVoice" -> "custom_voice"
      [] ckpt = "VoiceDesign" -> "voice_design"
      [] ckpt = "Base" -> "base"
      [] OTHER -> "unknown"

\* _detect_model_kind: the kind, or "ValueError" when the type is unknown.
_detect_model_kind(ckpt) ==
    IF tts_model_type(ckpt) \in {"custom_voice", "voice_design", "base"}
    THEN tts_model_type(ckpt)
    ELSE "ValueError"

\* The handle fields _build_model_state computes for engine tts; lang_map
\* and spk_map are derived from the engine, so they carry its identity.
_build_model_state(tts, ckpt) ==
    [tts |-> tts, ckpt |-> ckpt, model_kind |-> _detect_model_kind(ckpt),
     lang_map |-> tts, spk_map |-> tts]

HandleKeys == {"tts", "ckpt", "model_kind", "lang_map", "spk_map"}

\* _MODEL_STATE.update(state): the keys of state replace those of the dict.
Update(dict, state) ==
    [k \in DOMAIN dict |-> IF k \in DOMAIN state THEN state[k] ELSE dict[k]]

\* The snapshot _use_model hands to the handler.
Snapshot(dict) == [k \in HandleKeys |-> dict[k]]

\* The model kind each generation handler requires.
Operations == {"custom", "design", "clone"}
RequiredKind(op) ==
    CASE op = "custom" -> "custom_voice"
      [] op = "design" -> "voice_design"
      [] OTHER -> "base"

\* ------------------------------------------------- dispatcher data model
\* The range of the max_new_tokens slider of the demo.
MinNewTokens == 512
MaxNewTokens == 8192

\* Values a caller can send: text, and max_new_tokens around both ends of
\* the slider's range.
TextInputs == {"", " ", "hi"}
MaxNewTokensInputs == {MinNewTokens - 1, MinNewTokens, MaxNewTokens, MaxNewTokens + 1}

\* _gen_common_kwargs: int(max_tokens) and the other casts; the result is
\* passed to the generate method as it is.
_gen_common_kwargs(max_tokens) == [max_new_tokens |-> max_tokens]
NoKwargs == [max_new_tokens |-> 0]

\* The checkpoints of MODEL_PRESETS (demo) and MODEL_OPTIONS (API).
PresetCkpts == {"Base", "VoiceDesign", "CustomVoice"}
MODEL_OPTIONS_default(key) == IF key = "voice_design" THEN "VoiceDesign" ELSE "Base"
MODEL_OPTIONS(key) ==
    CASE key = "base" -> "Base"
      [] key = "voice_design" -> "VoiceDesign"
      [] key = "custom_voice" -> "CustomVoice"
      [] OTHER -> ""
DEFAULT_MODEL == "base"
ModelKeys == {"base", "voice_design", "custom_voice", "bogus"}

\* request.checkpoint of a load-model request: absent ("") or a checkpoint.
CheckpointInputs == {"", "CustomVoice"}

\* A load-model request with the status the service answered it with (0
\* while _load_model is still running) and the status the gateway passed
\* on when the request came through /tts/load-model (0 when it has not).
LoadAnswer(request, status) ==
    [endpoint |-> "load_model",
     body |-> [status |-> status, model |-> request.model,
               checkpoint |-> request.checkpoint, gateway |-> 0]]

\* What Qwen3TTSModel.from_pretrained can do for a checkpoint: return an
\* engine or raise (missing files, out of memory, ...).
LoadResults == {"engine", "raise"}

\* _clear_model(): the globals are reset when an engine is loaded.
_clear_model(a) ==
    IF a.tts_model # None
    THEN [a EXCEPT !.tts_model = None, !.model_kind = "None", !.model_checkpoint = "None"]
    ELSE a

\* The rest of _load_model once from_pretrained has returned a new engine
\* (res = "engine": the globals are assigned) or raised (they stay cleared).
\* loading is the checkpoint _load_model was called with while the call
\* runs, and loads counts the from_pretrained calls, which gives each
\* engine its identity: 1 is the engine loaded at startup.
_load_model(a, res) ==
    IF res = "engine"
    THEN [a EXCEPT !.tts_model = a.loads + 2,
                   !.model_kind = tts_model_type(a.loading),
                   !.model_checkpoint = a.loading,
                   !.loading = "", !.loads = @ + 1]
    ELSE [a EXCEPT !.loading = "", !.loads = @ + 1]

\* The globals after the startup handler load_model() has returned.
Started ==
    _load_model([tts_model |-> None, model_kind |-> "None", model_checkpoint |-> "None",
                 loading |-> MODEL_OPTIONS(DEFAULT_MODEL), loads |-> 0 - 1], "engine")

\* The kinds each API endpoint lets through its model_kind test.
ApiAccepts(op) ==
    CASE op = "design" -> {"voice_design", "base"}
      [] op = "custom" -> {"custom_voice"}
      [] OTHER -> {"base"}

\* The operations each front end offers for a loaded kind: the panel the
\* demo makes visible, and the endpoints /api/info lists.
PanelVisible(op, kind) ==
    CASE op = "custom" -> kind = "custom_voice"
      [] op = "design" -> kind = "voice_design"
      [] OTHER -> kind = "base"
InfoEndpoints_panels(op, kind) == PanelVisible(op, kind)
InfoEndpoints(op, kind) ==
    CASE op = "design" -> kind \in {"voice_design", "base"}
      [] op = "custom" -> kind = "custom_voice"
      [] OTHER -> kind = "base"

\* tts.model.get_supported_speakers() of an engine of the given kind.
SupportedSpeakers(kind) == IF kind = "custom_voice" THEN {"Vivian"} ELSE {}

\* The body of get_info() and of health() for the globals a.
get_info_body(a) ==
    IF a.tts_model = None THEN [status |-> "Model not loaded"]
    ELSE [model_checkpoint |-> a.model_checkpoint, model_type |-> a.model_kind,
          supported_speakers |-> SupportedSpeakers(a.model_kind),
          endpoints |-> {op \in Operations : InfoEndpoints(op, a.model_kind)}]
health_body(a) ==
    [status |-> "healthy", model_loaded |-> a.tts_model # None,
     model_type |-> a.model_kind]

\* The kind a dispatcher finds loaded, "none" when there is no engine.
LoadedKind(tts, kind) == IF tts = None THEN "none" ELSE kind

\* The fields an operation takes besides text: the speaker (custom), the
\* voice description (design), the reference audio, its transcript and
\* the x-vector-only flag (clone).
NoExtra ==
    [speaker |-> "", instruct |-> "", ref_audio |-> FALSE, ref_text |-> "",
     x_vector_only |-> FALSE]
SpeakerInputs == {"", "Vivian", "Nobody"}
ExtraInputs(op) ==
    CASE op = "custom" -> {[NoExtra EXCEPT !.speaker = sp] : sp \in SpeakerInputs}
      [] op = "design" -> {[NoExtra EXCEPT !.instruct = ins] : ins \in {"", "calm"}}
      [] OTHER -> {[NoExtra EXCEPT !.ref_audio = aud, !.ref_text = txt,
                                   !.x_vector_only = xv] :
                     aud \in BOOLEAN, txt \in {"", "hello"}, xv \in BOOLEAN}

\* The input tests a demo handler makes before `with _use_model()`.
DemoInputError(op, text, extra) ==
    \/ Strip(text) = ""
    \/ CASE op = "custom" -> extra.speaker = ""
         [] op = "design" -> Strip(extra.instruct) = ""
         [] OTHER -> \/ ~extra.ref_audio
                     \/ ~extra.x_vector_only /\ Strip(extra.ref_text) = ""

\* The status an API endpoint answers with: HTTPException(503) when no
\* engine is loaded, HTTPException(400) from the kind test, HTTPException(500)
\* from the except clause, 200 for the audio file; 422 is FastAPI's answer
\* to a body that does not fit the declared request model.
status_code(outcome) ==
    CASE outcome = "Unavailable" -> 503
      [] outcome = "Incompatible" -> 400
      [] outcome = "ValidationError" -> 422
      [] outcome = "EngineError" -> 500
      [] OTHER -> 200
FailureKinds == {"Unavailable", "Incompatible", "ValidationError", "EngineError"}

\* str(e) of the exception that carries an upstream status and body.
outcome_text(upstream) ==
    CASE upstream = 503 -> "503: Model not loaded"
      [] upstream = 400 -> "400: not supported"
      [] upstream = 422 -> "422: validation"
      [] OTHER -> "500: engine"

\* The gateway endpoint that forwards each operation to the TTS service.
GatewayEndpoint(op) ==
    CASE op = "clone" -> "voice-clone"
      [] op = "design" -> "voice-design"
      [] OTHER -> "custom-voice"

\* What can happen to the gateway's httpx request, and the two ways the
\* installed Starlette prints an HTTPException built with keyword
\* arguments: "status: detail" (it defines __str__) or the empty string.
NetResults == {"ok", "timeout", "error"}
StrOfHTTPException == {"status: detail", ""}

\* The try block of a gateway /tts/* endpoint: 200 is passed on; for any
\* other status HTTPException(status_code=response.status_code,
\* detail=response.text) is raised inside the try and caught by its own
\* `except Exception`, which raises HTTPException(500, str(e)).  Only
\* voice-design, simple and load-model have an `except
\* httpx.TimeoutException` clause (504).
GatewayAnswer(endpoint, net, upstream, str) ==
    IF net = "timeout"
    THEN IF endpoint \in {"voice-design", "simple", "load-model"}
         THEN [status |-> 504, detail |-> "timeout"]
         ELSE [status |-> 500, detail |-> "transport"]
    ELSE IF net = "error" THEN [status |-> 500, detail |-> "transport"]
    ELSE IF upstream = 200 THEN [status |-> 200, detail |-> "audio"]
    ELSE [status |-> 500, detail |-> IF str = "" THEN "" ELSE outcome_text(upstream)]
NoReply == [status |-> 0, detail |-> ""]

\* call before any request, and a request with its answer.  engine and
\* kind are what the entry point had loaded when it was called; handle
\* tells how the dispatcher read them: "unread", "locked" (inside
\* `with _STATE_COND`) or "unlocked"; used is the engine whose generate
\* method was called.  When the request came through the gateway, net and
\* reply are what happened to the forwarded request and what the gateway
\* answered.
Request(frontend, op, text, max_tokens, extra, tts, kind) ==
    [frontend |-> frontend, op |-> op, text |-> text, max_new_tokens |-> max_tokens,
     extra |-> extra, engine |-> tts, kind |-> LoadedKind(tts, kind),
     pc |-> "await", outcome |-> "none", handle |-> "unread", invoked |-> FALSE,
     used |-> None, kwargs |-> NoKwargs, net |-> "none", reply |-> NoReply]
NoCall == [Request("none", "none", "", 0, NoExtra, None, "none") EXCEPT !.pc = "done"]
Answered(req, outcome, invoked) ==
    [req EXCEPT !.pc = "done", !.outcome = outcome, !.invoked = invoked,
                !.kwargs = IF invoked THEN _gen_common_kwargs(req.max_new_tokens)
                           ELSE NoKwargs]

\* MODEL_STATE is the dictionary _MODEL_STATE, job[j] and reload[r] hold the
\* position and the local variables of each handler call and of each call
\* of _reload_model, and deleted is the set of engines whose reference a
\* reload has dropped (del old_tts followed by _cleanup_memory()).
\*
\* api holds the globals of the REST service (src/qwen-tts/qwen_tts_api.py:
\* tts_model, model_kind, model_checkpoint), and call is the request a
\* dispatcher entry point (a demo handler or an API endpoint) was called
\* with, together with what it answered.  info is the last answer to a
\* describe request (get_info, health, the gateway's /tts/info) or to a
\* load-model request.
VARIABLES MODEL_STATE, job, reload, deleted, api, call, info

vars == <<MODEL_STATE, job, reload, deleted, api, call, info>>

\* The part of the state the coordinator of demo.py never touches.
dispatch == <<api, call, info>>

NoState == [k \in HandleKeys |-> IF k \in {"ckpt", "model_kind"} THEN "" ELSE None]

\* main(): from_pretrained, _build_model_state, _set_model_state, and only
\* then the demo is served; no job and no reload has started.
Init ==
    /\ MODEL_STATE = [k \in HandleKeys \cup {"active_jobs", "reloading"} |->
                        CASE k = "active_jobs" -> 0
                          [] k = "reloading" -> FALSE
                          [] OTHER -> _build_model_state(1, InitialCkpt)[k]]
    /\ job = [j \in Jobs |-> [pc |-> "idle", state |-> NoState, outcome |-> "none",
                              acquired |-> 0, released |-> 0, requeued |-> FALSE]]
    /\ reload = [r \in Reloads |-> [pc |-> "idle", ckpt |-> "", old |-> NoState,
                                    old_tts |-> None, state |-> NoState,
                                    result |-> "none", drained |-> FALSE]]
    /\ deleted = {}
    /\ api = Started
    /\ call = NoCall
    /\ info = [endpoint |-> "none", body |-> [status |-> "none"]]

\* The dictionary _reload_model writes over the handle, under the lock,
\* before it constructs the new engine.
ClearedState_keep == Snapshot(MODEL_STATE)
ClearedState_partial == [tts |-> None, ckpt |-> "", model_kind |-> ""]
ClearedState ==
    [tts |-> None, ckpt |-> "", model_kind |-> "", lang_map |-> None, spk_map |-> None]

\* Requests are numbered in their order of arrival: job j is the j-th
\* handler call to start, reload r the r-th call of _reload_model.
Arrives(f, p) == f[p].pc = "idle" /\ (IF p = 1 THEN TRUE ELSE f[p - 1].pc # "idle")

\* ------------------------------------------------------------ notify_all
\* _STATE_COND.notify_all(): every thread blocked in wait() becomes runnable
\* and will re-acquire the lock.
NotifyJobs_none(f) == f
NotifyJobs_one(f) ==
    LET waiting == {j \in Jobs : f[j].pc = "wait"} IN
    [j \in Jobs |-> IF j \in waiting /\ \A k \in waiting : j <= k
                    THEN [f[j] EXCEPT !.pc = "woken", !.requeued = FALSE] ELSE f[j]]
NotifyJobs(f) ==
    [j \in Jobs |-> IF f[j].pc = "wait"
                    THEN [f[j] EXCEPT !.pc = "woken", !.requeued = FALSE] ELSE f[j]]
NotifyReloads(f) ==
    [r \in Reloads |-> IF f[r].pc = "wait" THEN [f[r] EXCEPT !.pc = "woken"] ELSE f[r]]

\* ------------------------------------------------------------ _use_model
\* The test of `while _MODEL_STATE["reloading"]`, evaluated on entry
\* (woken = FALSE) and again after every wakeup (woken = TRUE).
ReloadingBlocks_if(woken) == MODEL_STATE.reloading /\ ~woken
ReloadingBlocks(woken) == MODEL_STATE.reloading

\* _MODEL_STATE["active_jobs"] -= 1
Released_twice(dict) == [dict EXCEPT !.active_jobs = @ - 2]
Released(dict) == [dict EXCEPT !.active_jobs = @ - 1]

\* Whether the release runs when the body of the with-block ends with the
\* given outcome: `try: yield state / finally:` runs it on every path.
Finally_nofinally(outcome) == outcome # "EngineError"
Finally(outcome) == TRUE

\* Locked region of _use_model from the current position of job j: wait
\* while reloading, otherwise count the job in and take the snapshot.
Acquire(j, woken) ==
    IF ReloadingBlocks(woken)
    THEN /\ job' = [job EXCEPT ![j].pc = "wait", ![j].requeued = woken]
         /\ UNCHANGED MODEL_STATE
    ELSE /\ MODEL_STATE' = [MODEL_STATE EXCEPT !.active_jobs = @ + 1]
         /\ job' = [job EXCEPT ![j].pc = "in", ![j].acquired = @ + 1,
                               ![j].state = Snapshot(MODEL_STATE)]

\* A handler rejects its inputs (empty text, missing speaker, ...) before
\* it reaches `with _use_model()`.
ValidateFail(j) ==
    /\ Arrives(job, j)
    /\ job' = [job EXCEPT ![j].pc = "done", ![j].outcome = "ValidationError"]
    /\ UNCHANGED <<MODEL_STATE, reload, deleted, dispatch>>

\* `with _STATE_COND:` on entry of _use_model.
UseModelEnter(j) ==
    /\ Arrives(job, j)
    /\ Acquire(j, FALSE)
    /\ UNCHANGED <<reload, deleted, dispatch>>

\* Return from _STATE_COND.wait(): the lock is held again, the loop re-tests.
UseModelWoken(j) ==
    /\ job[j].pc = "woken"
    /\ Acquire(j, TRUE)
    /\ UNCHANGED <<reload, deleted, dispatch>>

\* Body of the with-block in run_instruct / run_voice_design /
\* run_voice_clone on the snapshot: presence check, kind check, engine call
\* (which returns or raises).
HandlerOutcomes(state, op) ==
    IF state.tts = None THEN {"Unavailable"}
    ELSE IF state.model_kind # RequiredKind(op) THEN {"Incompatible"}
    ELSE {"Succeeded", "EngineError"}

\* The body of the with-block runs on the snapshot and the block is left:
\* the finally clause of _use_model, then the handler returns its outcome.
UseModelRelease(j) ==
    /\ job[j].pc = "in"
    /\ \E op \in Operations : \E outcome \in HandlerOutcomes(job[j].state, op) :
         LET done == [job EXCEPT ![j].pc = "done", ![j].outcome = outcome,
                                 ![j].state = NoState]
         IN IF Finally(outcome)
            THEN /\ MODEL_STATE' = Released(MODEL_STATE)
                 /\ LET wake == MODEL_STATE'.active_jobs <= 0
                        rel == [done EXCEPT ![j].released = @ + 1]
                    IN /\ job' = IF wake THEN NotifyJobs(rel) ELSE rel
                       /\ reload' = IF wake THEN NotifyReloads(reload) ELSE reload
            ELSE /\ job' = done
                 /\ UNCHANGED <<MODEL_STATE, reload>>
    /\ UNCHANGED <<deleted, dispatch>>

\* --------------------------------------------------------- _reload_model
\* The test of `while _MODEL_STATE["active_jobs"] > 0`.
DrainPending_off == MODEL_STATE.active_jobs > 1
DrainPending_never == FALSE
DrainPending == MODEL_STATE.active_jobs > 0

\* Locked region of _reload_model after reloading has been set: wait for
\* the drain, otherwise remember the old engine and clear the handle.
Drain(r, rec, dict) ==
    IF DrainPending
    THEN /\ reload' = [reload EXCEPT ![r] = [rec EXCEPT !.pc = "wait"]]
         /\ MODEL_STATE' = dict
    ELSE /\ reload' = [reload EXCEPT ![r] = [rec EXCEPT !.pc = "cleared",
                                                        !.old_tts = dict.tts,
                                                        !.old = Snapshot(dict)]]
         /\ MODEL_STATE' = Update(dict, ClearedState)

\* Call of _reload_model(ckpt, ...) up to the first wait or the clear.
ReloadBegin(r) ==
    /\ Arrives(reload, r)
    /\ \E arg \in CkptInputs :
         LET ckpt == Strip(arg) IN
         IF ckpt = ""
         THEN /\ reload' = [reload EXCEPT ![r].pc = "done", ![r].result = "ValueError"]
              /\ UNCHANGED MODEL_STATE
         ELSE Drain(r, [reload[r] EXCEPT !.ckpt = ckpt],
                    [MODEL_STATE EXCEPT !.reloading = TRUE])
    /\ UNCHANGED <<job, deleted, dispatch>>

\* Return from _STATE_COND.wait() in the drain loop.
ReloadWoken(r) ==
    /\ reload[r].pc = "woken"
    /\ Drain(r, [reload[r] EXCEPT !.drained = TRUE], MODEL_STATE)
    /\ UNCHANGED <<job, deleted, dispatch>>

\* if old_tts is not None: del old_tts
Delete(old_tts) == IF old_tts # None THEN deleted \cup {old_tts} ELSE deleted

\* The try block when nothing raises: del old_tts, _cleanup_memory(),
\* from_pretrained, _build_model_state and the locked _set_model_state(state).
ReloadLoad(r) ==
    /\ reload[r].pc = "cleared"
    /\ _detect_model_kind(reload[r].ckpt) # "ValueError"
    /\ LET state == _build_model_state(NewEngine(r), reload[r].ckpt) IN
         /\ reload' = [reload EXCEPT ![r].pc = "published", ![r].state = state,
                                     ![r].old_tts = None, ![r].drained = FALSE]
         /\ MODEL_STATE' = Update(MODEL_STATE, state)
    /\ deleted' = Delete(reload[r].old_tts)
    /\ UNCHANGED <<job, dispatch>>

\* The try block when from_pretrained or _detect_model_kind raises, and
\* the except clause: clear the flag, wake everyone, re-raise.
ReloadFail(r) ==
    /\ reload[r].pc = "cleared"
    /\ \E res \in LoadResults :
         res = "engine" => _detect_model_kind(reload[r].ckpt) = "ValueError"
    /\ MODEL_STATE' = [MODEL_STATE EXCEPT !.reloading = FALSE]
    /\ reload' = NotifyReloads([reload EXCEPT ![r].pc = "done", ![r].result = "LoadError",
                                               ![r].ckpt = "", ![r].old_tts = None,
                                               ![r].old = NoState,
                                               ![r].drained = FALSE])
    /\ job' = NotifyJobs(job)
    /\ deleted' = Delete(reload[r].old_tts)
    /\ UNCHANGED dispatch

\* The final locked region: clear the flag, wake everyone, return state.
ReloadFinish(r) ==
    /\ reload[r].pc = "published"
    /\ MODEL_STATE' = [MODEL_STATE EXCEPT !.reloading = FALSE]
    /\ reload' = NotifyReloads([reload EXCEPT ![r].pc = "done", ![r].result = "ok",
                                               ![r].ckpt = "", ![r].old = NoState])
    /\ job' = NotifyJobs(job)
    /\ UNCHANGED <<deleted, dispatch>>

Next ==
    \/ \E j \in Jobs : ValidateFail(j)
    \/ \E j \in Jobs : UseModelEnter(j)
    \/ \E j \in Jobs : UseModelWoken(j)
    \/ \E j \in Jobs : UseModelRelease(j)
    \/ \E r \in Reloads : ReloadBegin(r)
    \/ \E r \in Reloads : ReloadWoken(r)
    \/ \E r \in Reloads : ReloadLoad(r)
    \/ \E r \in Reloads : ReloadFail(r)
    \/ \E r \in Reloads : ReloadFinish(r)

Spec == Init /\ [][Next]_vars

\* A thread that holds no wait() runs on: a woken acquirer or reload
\* re-takes the lock, the body of a with-block ends, from_pretrained returns
\* or raises, and the final locked region of a reload runs.  Nothing is
\* assumed about new handler calls or new reloads arriving.
Fairness ==
    /\ \A j \in Jobs : WF_vars(UseModelWoken(j)) /\ WF_vars(UseModelRelease(j))
    /\ \A r \in Reloads : /\ WF_vars(ReloadWoken(r))
                          /\ WF_vars(ReloadLoad(r) \/ ReloadFail(r))
                          /\ WF_vars(ReloadFinish(r))

FairSpec == Spec /\ Fairness

\* ------------------------------------------------------------ dispatchers
\* In SpecDemo one request at a time goes through a handler; what the
\* coordinator does under concurrent handler calls is Spec's subject.
\*
\* A demo handler (run_instruct, run_voice_design, run_voice_clone): the
\* input tests before `with _use_model()`, then the body of the with-block
\* on the snapshot (the speaker goes through spk_map.get(spk, spk)), then
\* the release.
DemoDispatch ==
    /\ call.pc = "done" /\ ~MODEL_STATE.reloading
    /\ \E op \in Operations, text \in TextInputs,
          max_tokens \in MaxNewTokensInputs, raises \in BOOLEAN :
       \E extra \in ExtraInputs(op) :
         LET req == Request("demo", op, text, max_tokens, extra,
                            MODEL_STATE.tts, MODEL_STATE.model_kind)
         IN IF DemoInputError(op, text, extra)
            THEN /\ call' = Answered(req, "ValidationError", FALSE)
                 /\ UNCHANGED MODEL_STATE
            ELSE LET state == Snapshot(MODEL_STATE)
                     outs == HandlerOutcomes(state, op)
                     invoked == "Succeeded" \in outs
                     outcome == IF ~invoked THEN CHOOSE o \in outs : TRUE
                                ELSE IF raises THEN "EngineError" ELSE "Succeeded"
                 IN /\ call' = [Answered(req, outcome, invoked) EXCEPT
                                   !.handle = "locked",
                                   !.used = IF invoked THEN state.tts ELSE None]
                    /\ MODEL_STATE' =
                         Released([MODEL_STATE EXCEPT !.active_jobs = @ + 1])
    /\ UNCHANGED <<job, reload, deleted, api, info>>

\* _reload_model(ckpt) called while no handler and no other reload runs:
\* the handle becomes the new one, or stays cleared when the load raises.
ReloadAlone ==
    /\ call.pc = "done" /\ ~MODEL_STATE.reloading /\ MODEL_STATE.active_jobs = 0
    /\ \E arg \in PresetCkpts \cup CkptInputs, res \in LoadResults :
         LET ckpt == Strip(arg) IN
         IF ckpt = "" THEN UNCHANGED MODEL_STATE
         ELSE IF res = "engine" /\ _detect_model_kind(ckpt) # "ValueError"
         THEN MODEL_STATE' = Update(MODEL_STATE, _build_model_state(NewEngine(1), ckpt))
         ELSE MODEL_STATE' = Update(MODEL_STATE, ClearedState)
    /\ UNCHANGED <<job, reload, deleted, dispatch>>

\* The API endpoints are `async def`: they run one at a time on the event
\* loop of the one uvicorn process, and another one starts only when the
\* running one returns or reaches an await.  _load_model has no await, so
\* while it runs (api.loading is set) no endpoint starts or resumes.
LoopFree == api.loading = ""

\* An API endpoint (voice_design, custom_voice, voice_clone) up to its
\* return or, for voice_clone, up to `await ref_audio.read()`: the
\* tts_model test (503), the model_kind test (400), then the engine call
\* with the request's parameters as they came (200, or 500 when it
\* raises).  No lock is taken.  voice_clone is only called with an
\* uploaded file: ref_audio is declared File(...).
ApiDispatch ==
    /\ call.pc = "done" /\ LoopFree
    /\ \E op \in Operations, text \in TextInputs,
          max_tokens \in MaxNewTokensInputs, raises \in BOOLEAN :
       \E extra \in {e \in ExtraInputs(op) : op = "clone" => e.ref_audio} :
         LET req == [Request("api", op, text, max_tokens, extra,
                             api.tts_model, api.model_kind)
                       EXCEPT !.handle = "unlocked"]
         IN call' = IF api.tts_model = None THEN Answered(req, "Unavailable", FALSE)
                    ELSE IF api.model_kind \notin ApiAccepts(op)
                    THEN Answered(req, "Incompatible", FALSE)
                    ELSE IF op = "clone" THEN req
                    ELSE [Answered(req, IF raises THEN "EngineError" ELSE "Succeeded",
                                   TRUE) EXCEPT !.used = api.tts_model]
    /\ UNCHANGED <<MODEL_STATE, job, reload, deleted, api, info>>

\* voice_clone after the await: the audio is decoded (which can raise),
\* then generate_voice_clone is called on whatever tts_model is now; on
\* None the attribute lookup raises and the except clause answers 500.
ApiCloneResume ==
    /\ call.pc = "await" /\ LoopFree
    /\ \E res \in {"ok", "audio raises", "engine raises"} :
         call' = IF res = "audio raises" \/ api.tts_model = None
                 THEN Answered(call, "EngineError", FALSE)
                 ELSE [Answered(call, IF res = "ok" THEN "Succeeded" ELSE "EngineError",
                                TRUE) EXCEPT !.used = api.tts_model]
    /\ UNCHANGED <<MODEL_STATE, job, reload, deleted, api, info>>

\* load_model_endpoint up to the from_pretrained call inside _load_model:
\* checkpoint = request.checkpoint or MODEL_OPTIONS.get(model_key); 400
\* when that is empty, otherwise model_lock is taken and _clear_model()
\* runs.  It can start while a voice_clone is suspended at its await.
\* info keeps the request and the answer it got so far.
ApiLoadBegin ==
    /\ LoopFree /\ api.loads < MaxApiLoads
    /\ \E key \in ModelKeys, given \in CheckpointInputs :
         LET checkpoint == IF given # "" THEN given ELSE MODEL_OPTIONS(key)
             request == [model |-> key, checkpoint |-> given]
         IN IF checkpoint = ""
            THEN /\ UNCHANGED api
                 /\ info' = LoadAnswer(request, 400)
            ELSE /\ api' = [_clear_model(api) EXCEPT !.loading = checkpoint]
                 /\ info' = LoadAnswer(request, 0)
    /\ UNCHANGED <<MODEL_STATE, job, reload, deleted, call>>

\* from_pretrained returns or raises, and load_model_endpoint answers:
\* 200 with the new model type and checkpoint, or 500 from its except clause.
ApiLoadEnd ==
    /\ api.loading # ""
    /\ \E res \in LoadResults :
         /\ api' = _load_model(api, res)
         /\ info' = [info EXCEPT !.body.status = IF res = "engine" THEN 200 ELSE 500]
    /\ UNCHANGED <<MODEL_STATE, job, reload, deleted, call>>

\* The demo and the REST service are two programs with no state in
\* common: SpecDemo runs the dispatcher of the demo, SpecApi the service.
NextDemo ==
    \/ DemoDispatch
    \/ ReloadAlone

SpecDemo == Init /\ [][NextDemo]_vars

\* A gateway /tts/voice-clone, /tts/voice-design or /tts/custom-voice
\* request: the gateway copies the parameters into the request it sends
\* to the API endpoint, and answers from the response, from a timeout or
\* from a transport error.
GatewayRelay ==
    /\ call.pc = "done" /\ call.frontend = "api"
    /\ \E net \in NetResults, str \in StrOfHTTPException :
         call' = [call EXCEPT !.pc = "relayed", !.net = net,
                              !.reply = GatewayAnswer(GatewayEndpoint(call.op), net,
                                                      status_code(call.outcome), str)]
    /\ UNCHANGED <<MODEL_STATE, job, reload, deleted, api, info>>

NextApi ==
    \/ ApiDispatch
    \/ ApiCloneResume
    \/ ApiLoadBegin
    \/ ApiLoadEnd
    \/ GatewayRelay

SpecApi == Init /\ [][NextApi]_vars

\* get_info() and health(): `async def` without an await and without a
\* lock; they run when the event loop is free and answer from the globals.
get_info_last == [body |-> get_info_body(api), last_request |-> call.outcome]
get_info == get_info_body(api)
health == health_body(api)
Describe ==
    /\ LoopFree
    /\ \E endpoint \in {"get_info", "health"} :
         info' = [endpoint |-> endpoint,
                  body |-> IF endpoint = "health" THEN health ELSE get_info]
    /\ UNCHANGED <<MODEL_STATE, job, reload, deleted, api, call>>

\* The gateway's /tts/info: its own table of models, to which it adds
\* the model type and checkpoint of the service's /api/info when that
\* request is answered with 200 within the timeout; while the service's
\* event loop is busy the request is not answered.
GatewayInfo ==
    /\ \E net \in NetResults :
         info' = [endpoint |-> "tts_info",
                  body |-> IF net = "ok" /\ LoopFree
                           THEN [models |-> Operations,
                                 current_model_type |-> api.model_kind,
                                 current_model_checkpoint |-> api.model_checkpoint]
                           ELSE [models |-> Operations]]
    /\ UNCHANGED <<MODEL_STATE, job, reload, deleted, api, call>>

\* The gateway's /tts/load-model for a request the service has answered:
\* the same try block as the other /tts/* endpoints, with a timeout clause.
GatewayLoad ==
    /\ info.endpoint = "load_model" /\ info.body.status # 0 /\ info.body.gateway = 0
    /\ \E net \in NetResults, str \in StrOfHTTPException :
         info' = [info EXCEPT !.body.gateway =
                    GatewayAnswer("load-model", net, info.body.status, str).status]
    /\ UNCHANGED <<MODEL_STATE, job, reload, deleted, api, call>>

\* The service under load-model and describe requests only.
NextDescribe ==
    \/ ApiLoadBegin
    \/ ApiLoadEnd
    \/ Describe
    \/ GatewayInfo
    \/ GatewayLoad

SpecDescribe == Init /\ [][NextDescribe]_vars

\* ================================================================ claims
\* Job j is admitted by this step: it is counted in and takes its snapshot.
Admitted(j) == job[j].acquired = 0 /\ job'[j].acquired = 1

\* Reload r has set reloading and has neither returned nor raised.
InProgress(r) == reload[r].pc \in {"wait", "woken", "cleared", "published"}

\* C1: no _use_model call is admitted (active_jobs incremented, snapshot
\* taken) in a state where reloading is true, and an acquirer that is woken
\* while the flag is still true goes back to waiting.
C1_NoAdmissionWhileReloading ==
    [][\A j \in Jobs :
          /\ Admitted(j) => ~MODEL_STATE.reloading
          /\ (job[j].pc = "woken" /\ MODEL_STATE.reloading /\ job'[j] # job[j])
                => job'[j].pc = "wait" /\ job'[j].acquired = 0]_vars

\* An acquirer was woken while reloading was still true and waits again.
C1_Witness ==
    \E j \in Jobs : job[j].pc = "wait" /\ job[j].requeued /\ MODEL_STATE.reloading

\* C2: the first modification of the handle made by a _reload_model call
\* (the clear) happens only in a state where active_jobs = 0; a step of the
\* call that does not reach the clear leaves the handle alone.
C2_ClearOnlyWhenDrained ==
    [][\A r \in Reloads :
          (reload[r].pc \in {"idle", "woken"} /\ reload'[r] # reload[r])
             => IF reload'[r].pc = "cleared"
                THEN MODEL_STATE.active_jobs = 0
                ELSE Snapshot(MODEL_STATE') = Snapshot(MODEL_STATE)]_vars

\* A reload that had to wait for the drain has cleared the handle.
C2_Witness ==
    \E r \in Reloads : reload[r].pc = "cleared" /\ reload[r].drained
                       /\ reload[r].old_tts # None

\* C3: the current handle (tts, ckpt, model_kind, maps) is never changed,
\* neither cleared nor replaced, in a state where active_jobs > 0.
C3_HandleStableWhileActive ==
    [][Snapshot(MODEL_STATE') # Snapshot(MODEL_STATE)
          => MODEL_STATE.active_jobs = 0]_vars

\* C4: at every instant at most one _reload_model call is between setting
\* reloading and clearing it.
C4_ReloadsSerialize ==
    Cardinality({r \in Reloads : InProgress(r)}) <= 1

\* C5: reloading is true in every state in which some reload has started
\* its drain or swap and has not yet returned or raised.
C5_FlagCoversEveryReload ==
    (\E r \in Reloads : InProgress(r)) => MODEL_STATE.reloading

\* C6: a reload whose construction fails leaves ckpt, model_kind and the
\* engine exactly as they were when the call took over the handle.
C6_FailedReloadKeepsCurrent ==
    [][\A r \in Reloads :
          (reload[r].pc = "cleared" /\ reload'[r].result = "LoadError")
             => Snapshot(MODEL_STATE') = reload[r].old]_vars

\* C7: active_jobs is never negative and equals the number of handler
\* calls currently inside a _use_model block.
C7_ActiveJobsCountsBlocks ==
    /\ MODEL_STATE.active_jobs >= 0
    /\ MODEL_STATE.active_jobs = Cardinality({j \in Jobs : job[j].pc = "in"})

\* One job has left its block while another is still inside.
C7_Witness ==
    \E j1, j2 \in Jobs :
        /\ job[j1].pc = "in" /\ job[j2].released = 1
        /\ MODEL_STATE.active_jobs = 1

\* C8: a handler call that acquired a handle has released it exactly once
\* by the time its outcome is delivered, whatever the outcome (model not
\* loaded, incompatible kind, engine exception, success); a call that never
\* acquired releases nothing.
C8_ReleasedExactlyOnce ==
    \A j \in Jobs :
        /\ job[j].released <= job[j].acquired
        /\ job[j].acquired <= 1
        /\ job[j].pc = "done" => job[j].released = job[j].acquired
        /\ (job[j].pc = "done" /\ job[j].outcome # "ValidationError")
              => job[j].released = 1

\* One call was delivered an engine exception and another "model not
\* loaded", both after their release.
C8_Witness ==
    \E j1, j2 \in Jobs :
        /\ job[j1].pc = "done" /\ job[j1].outcome = "EngineError" /\ job[j1].released = 1
        /\ job[j2].pc = "done" /\ job[j2].outcome = "Unavailable" /\ job[j2].released = 1

\* C9: a _reload_model call with a usable checkpoint that starts while
\* reloading is already true fails at once with AlreadyReconfiguring and
\* changes nothing in _MODEL_STATE.
C9_SecondReloadRejected ==
    [][\A r \in Reloads :
          (/\ reload[r].pc = "idle" /\ reload'[r].pc # "idle"
           /\ reload'[r].result # "ValueError"
           /\ MODEL_STATE.reloading)
             => /\ reload'[r].pc = "done"
                /\ reload'[r].result = "AlreadyReconfiguring"
                /\ MODEL_STATE' = MODEL_STATE]_vars

\* C10: an acquisition admitted before a reload has published its engine
\* does not observe that engine, and no acquisition observes an engine that
\* a reload has taken out of the handle and dropped, which covers every
\* acquisition admitted after that reload cleared reloading.
C10_SwapOrdering ==
    [][\A j \in Jobs :
          Admitted(j) =>
             /\ job'[j].state.tts \notin deleted
             /\ \A r \in Reloads :
                   reload[r].pc \in {"idle", "wait", "woken", "cleared"}
                      => job'[j].state.tts # NewEngine(r)]_vars

\* A job admitted after a completed swap works on the new engine, while
\* the engine it replaced has been dropped.
C10_Witness ==
    \E j \in Jobs, r \in Reloads :
        /\ reload[r].pc = "done" /\ reload[r].result = "ok"
        /\ job[j].pc = "in" /\ job[j].state.tts = NewEngine(r)
        /\ 1 \in deleted

\* A snapshot is whole: either the cleared handle, or the five fields one
\* _build_model_state call computed for one engine.
Whole(state) ==
    \/ state = ClearedState
    \/ /\ state.tts # None
       /\ state = _build_model_state(state.tts, state.ckpt)
       /\ (state.tts = 1) = (state.ckpt = InitialCkpt)

\* C11: every snapshot _use_model returns has tts, ckpt, model_kind,
\* lang_map and spk_map all from one published handle or all from the
\* cleared state, and so has _MODEL_STATE itself between locked regions.
C11_SnapshotsAreWhole ==
    /\ Whole(Snapshot(MODEL_STATE))
    /\ \A j \in Jobs : job[j].pc = "in" => Whole(job[j].state)

\* A job holds the snapshot of a reloaded engine while another reload is
\* between its clear and its return.
C11_Witness ==
    \E j \in Jobs, r1, r2 \in Reloads :
        /\ job[j].pc = "in" /\ job[j].state.tts = NewEngine(r1)
        /\ InProgress(r2)

\* C12: an engine whose reference a reload has dropped, or is about to
\* drop (old_tts), is no longer the current engine, and no job inside a
\* _use_model block holds a snapshot of it.
C12_DroppedEngineUnused ==
    \A e \in deleted \cup {reload[r].old_tts : r \in Reloads} :
        e # None =>
           /\ MODEL_STATE.tts # e
           /\ \A j \in Jobs : job[j].pc = "in" => job[j].state.tts # e

\* The engine a first reload published has been dropped by a second one,
\* and a job is in flight.
C12_Witness ==
    /\ \E r \in Reloads : NewEngine(r) \in deleted
    /\ \E j \in Jobs : job[j].pc = "in"

\* C14: the step in which a reload fails (from_pretrained or the kind
\* detection raised) leaves reloading false, returns the error to the
\* caller and wakes every thread blocked in wait(); a woken acquirer that
\* re-tests while the flag is false is admitted.
C14_FailedReloadWakesWaiters ==
    [][/\ \A r \in Reloads :
             (reload[r].pc = "cleared" /\ reload'[r].result = "LoadError")
                => /\ ~MODEL_STATE'.reloading
                   /\ reload'[r].pc = "done"
                   /\ \A j \in Jobs : job[j].pc = "wait" => job'[j].pc = "woken"
                   /\ \A q \in Reloads : reload[q].pc = "wait" => reload'[q].pc = "woken"
       /\ \A j \in Jobs :
             (job[j].pc = "woken" /\ ~MODEL_STATE.reloading /\ job'[j] # job[j])
                => job'[j].pc = "in"]_vars

\* Two acquirers that were blocked have both been woken by a reload that
\* failed, and the flag is false.
C14_Witness ==
    /\ \E r \in Reloads : reload[r].result = "LoadError"
    /\ \A j \in Jobs : job[j].pc = "woken"
    /\ ~MODEL_STATE.reloading

\* C18: as long as no reload has failed, every admitted acquire observes a
\* present engine (tts is not None).
C18_AdmittedSeesEngine ==
    [][\A j \in Jobs :
          (Admitted(j) /\ \A r \in Reloads : reload[r].result # "LoadError")
             => job'[j].state.tts # None]_vars

\* C15: under FairSpec every _use_model call blocked in wait() on the
\* reloading flag is eventually admitted, whether the reloads that held
\* the flag returned or raised.
C15_BlockedAcquirerAdmitted ==
    \A j \in Jobs : (job[j].pc = "wait") ~> (job[j].pc = "in")

\* An acquirer was woken by the end of one reload, found the flag set by
\* another one and waits again.
C15_Witness ==
    \E j \in Jobs : job[j].pc = "wait" /\ job[j].requeued /\ MODEL_STATE.reloading

\* C16: from the moment a reload has set reloading until it returns no
\* acquirer is admitted, and under FairSpec a reload waiting for the drain
\* is eventually woken and clears the handle for the swap.
C16_DrainNotStarved ==
    /\ [][\A j \in Jobs : Admitted(j) => \A r \in Reloads : ~InProgress(r)]_vars
    /\ \A r \in Reloads : (reload[r].pc = "wait") ~> (reload[r].pc = "cleared")

\* A dispatcher has answered the request in call.
Answer == call.frontend # "none" /\ call.pc = "done"

\* The operation of the request is one its front end offers for the kind
\* that was loaded when it was dispatched.
Offered ==
    IF call.frontend = "demo" THEN PanelVisible(call.op, call.kind)
    ELSE InfoEndpoints(call.op, call.kind)

\* C13: a dispatch of an operation that the loaded handle's kind does not
\* support ends with Incompatible, and no generate method was called.
C13_UnsupportedIsIncompatible ==
    (Answer /\ call.kind # "none" /\ ~Offered)
       => call.outcome = "Incompatible" /\ ~call.invoked

\* C17: a dispatch made while no engine is loaded ends with Unavailable,
\* calls no generate method and leaves active_jobs where it was.
C17_NoHandleIsUnavailable ==
    (Answer /\ call.kind = "none")
       => /\ call.outcome = "Unavailable" /\ ~call.invoked
          /\ MODEL_STATE.active_jobs = 0

\* C19: a generate method is only called with max_new_tokens within
\* 512..8192; a request outside the range that is otherwise acceptable
\* (engine loaded, operation offered, text given) ends with
\* ValidationError.
C19_MaxNewTokensRange ==
    Answer =>
       /\ call.invoked => call.kwargs.max_new_tokens \in MinNewTokens..MaxNewTokens
       /\ (/\ call.max_new_tokens \notin MinNewTokens..MaxNewTokens
           /\ call.kind # "none" /\ Offered /\ Strip(call.text) # "")
             => call.outcome = "ValidationError"

\* C20: a dispatch with an empty or blank text, to an entry point that has
\* an engine loaded and offers the operation, ends with ValidationError
\* and calls no generate method.
C20_EmptyTextRejected ==
    (Answer /\ Strip(call.text) = "" /\ call.kind # "none" /\ Offered)
       => call.outcome = "ValidationError" /\ ~call.invoked

\* C28: when a reload that loaded its engine clears reloading and returns
\* its state, _MODEL_STATE holds that state's ckpt and model_kind.
C28_ReturnedStateIsCurrent ==
    [][\A r \in Reloads :
          (reload[r].pc = "published" /\ reload'[r].result = "ok")
             => /\ MODEL_STATE'.ckpt = reload[r].state.ckpt
                /\ MODEL_STATE'.model_kind = reload[r].state.model_kind]_vars

\* C21: generate_voice_clone is only called for a request that has a
\* reference audio and either a non-blank transcript or the x-vector-only
\* flag; a clone request without them ends with ValidationError.
C21_CloneNeedsReference ==
    (Answer /\ call.op = "clone") =>
       LET complete == /\ call.extra.ref_audio
                       /\ call.extra.x_vector_only \/ Strip(call.extra.ref_text) # ""
       IN /\ call.invoked => complete
          /\ (~complete /\ call.kind # "none" /\ Offered /\ Strip(call.text) # "")
                => call.outcome = "ValidationError"

\* C22: generate_custom_voice is only called with a speaker that the
\* loaded engine lists; a request naming any other speaker ends with
\* ValidationError.
C22_SpeakerIsListed ==
    (Answer /\ call.op = "custom") =>
       /\ call.invoked => call.extra.speaker \in SupportedSpeakers(call.kind)
       /\ (/\ call.extra.speaker \notin SupportedSpeakers(call.kind)
           /\ call.kind # "none" /\ Offered /\ Strip(call.text) # "")
             => call.outcome = "ValidationError"

\* C26: no dispatcher reads the engine reference or its kind without
\* holding the lock that guards them.
C26_HandleReadUnderLock == Answer => call.handle # "unlocked"

\* C27: a demo request acquires its handle before any of its parameters
\* is tested, and the kind test comes before them: a request for an
\* operation the loaded kind does not support, with an empty text, ends
\* with Incompatible.
C27_AcquireThenKindThenValidate ==
    (Answer /\ call.frontend = "demo") =>
       /\ call.handle = "locked"
       /\ (call.kind # "none" /\ ~Offered /\ Strip(call.text) = "")
             => call.outcome = "Incompatible"

\* C29: from a dispatcher's presence and kind tests to its generate call
\* the engine stays the current one, and the generate method is called on
\* the engine that was tested.
C29_InvokesValidatedEngine ==
    /\ (call.pc = "await") =>
          api.tts_model = call.engine /\ api.model_kind = call.kind
    /\ (Answer /\ call.invoked) => call.used = call.engine

\* The status the caller of a request receives: the API's own, or the
\* gateway's when the request was relayed.
Received == IF call.pc = "relayed" THEN call.reply
            ELSE [status |-> status_code(call.outcome), detail |-> call.outcome]

\* What a caller on the same path would receive for another failure kind.
ReceivedFor(kind) ==
    IF call.pc = "relayed"
    THEN {GatewayAnswer(GatewayEndpoint(call.op), "ok", status_code(kind), str) :
            str \in StrOfHTTPException}
    ELSE {[status |-> status_code(kind), detail |-> kind]}

\* C23: what the caller receives for a failed TTS request, directly from
\* the API or through the gateway, is received for no other failure kind.
C23_FailureKindsDistinct ==
    (call.pc \in {"done", "relayed"} /\ call.frontend = "api" /\ call.net \in {"none", "ok"}
       /\ call.outcome \in FailureKinds)
       => \A kind \in FailureKinds \ {call.outcome} : Received \notin ReceivedFor(kind)

\* C30: when the TTS service answers a relayed request with a status other
\* than 200 the gateway answers with that status, and it answers 500 or
\* 504 only to a transport failure or a timeout.
C30_GatewayKeepsStatus ==
    (call.pc = "relayed") =>
       /\ (call.net = "ok" /\ status_code(call.outcome) # 200)
             => call.reply.status = status_code(call.outcome)
       /\ call.net # "ok" => call.reply.status \in {500, 504}

\* C24: a step of the service that neither starts nor completes a load
\* (any dispatch, with or without the gateway) leaves what get_info and
\* health return unchanged, so two describe calls with no load started or
\* completed between them return the same metadata.
C24_DescribeIdempotent ==
    [][(api'.loading = api.loading /\ api'.loads = api.loads)
          => get_info' = get_info /\ health' = health]_vars

\* A generate call has run on an engine that a load-model request loaded.
C24_Witness ==
    /\ Answer /\ call.invoked /\ api.loads > 0
    /\ api.tts_model # None
    /\ get_info.model_type = call.kind

\* C25: get_info and health can run to completion in every reachable
\* state of the service, also while _load_model is running.
C25_DescribeNeverBlocks == ENABLED Describe

\* The reloads that are in their try block, between the clear of the
\* handle and the return of from_pretrained, and the engine the handle holds.
Constructing == {r \in Reloads : reload[r].pc = "cleared"}
Resident == IF MODEL_STATE.tts # None THEN {MODEL_STATE.tts} ELSE {}

\* C31: at any time at most one engine is resident or under construction:
\* no two reloads construct an engine at once, and none constructs one
\* while the handle holds an engine.
C31_OneEngineAtATime == Cardinality(Constructing) + Cardinality(Resident) <= 1

\* C32: when an API endpoint is called with an engine loaded, it rejects
\* the request as incompatible exactly when the "endpoints" entry of
\* get_info does not list its operation for the loaded kind.
C32_AdvertisedIsAccepted ==
    [][(/\ call.pc = "done" /\ call' # call
        /\ call'.frontend = "api" /\ call'.pc # "relayed"
        /\ api.tts_model # None)
          => (call'.outcome = "Incompatible" <=> call'.op \notin get_info.endpoints)]_vars

\* After the last load-model request, an endpoint that get_info does not
\* list for the loaded kind has rejected a request as incompatible.
C32_Witness ==
    /\ Answer /\ call.frontend = "api" /\ api.tts_model # None
    /\ api.model_kind = call.kind /\ api.loads = MaxApiLoads
    /\ call.outcome = "Incompatible" /\ call.op \notin get_info.endpoints

\* C33: for every loaded kind and every operation, the API endpoint
\* rejects the request as incompatible exactly when the demo handler of
\* that operation does on a handle of the same kind.
C33_DispatchersAgree ==
    (call.frontend = "api" /\ call.kind # "none")
       => (call.outcome = "Incompatible"
             <=> HandlerOutcomes([tts |-> call.engine, model_kind |-> call.kind],
                                 call.op) = {"Incompatible"})

\* C34: a call of _reload_model with an empty or whitespace-only
\* checkpoint raises before it touches the coordinator: the step leaves
\* reloading, active_jobs and the handle as they were and blocks or wakes
\* no job and no other reload; every call that goes on to the coordinator
\* has a checkpoint that is neither empty nor whitespace only.
C34_BlankCkptTouchesNothing ==
    [][\A r \in Reloads :
          (reload[r].pc = "idle" /\ reload'[r].pc # "idle")
             => IF reload'[r].result = "ValueError"
                THEN /\ MODEL_STATE' = MODEL_STATE
                     /\ job' = job
                     /\ \A q \in Reloads \ {r} : reload'[q] = reload[q]
                ELSE reload'[r].ckpt \notin {"", " "}]_vars

\* A reload was called with a blank checkpoint while another reload had
\* cleared the handle and a job was waiting for it.
C34_Witness ==
    \E r \in Reloads, q \in Reloads, j \in Jobs :
       /\ reload[r].result = "ValueError"
       /\ reload[q].pc = "cleared" /\ MODEL_STATE.reloading
       /\ job[j].pc = "wait"

\* C35: a load-model request with no checkpoint and a model key that is
\* not one of the three known ones is answered 400 and leaves tts_model,
\* model_kind and model_checkpoint as they were; a request that gives a
\* checkpoint loads that checkpoint, whatever model key comes with it.
C35_UnknownModelRejected ==
    [][(info'.endpoint = "load_model" /\ info' # info)
          => LET request == info'.body IN
             /\ (/\ request.checkpoint = ""
                 /\ request.model \notin {"base", "voice_design", "custom_voice"})
                   => request.status = 400 /\ api' = api
             /\ (request.checkpoint # "" /\ request.status = 0)
                   => api'.loading = request.checkpoint
             /\ (request.checkpoint # "" /\ request.status = 200)
                   => api'.model_checkpoint = request.checkpoint]_vars

\* A request with model "base" and an explicit checkpoint has loaded that
\* checkpoint, a later request with an unknown key was answered 400, and
\* the loaded engine has served a custom-voice request.
C35_Witness ==
    /\ info.endpoint = "load_model" /\ info.body.status = 400
    /\ api.loads = 1 /\ api.model_checkpoint = "CustomVoice"
    /\ Answer /\ call.op = "custom" /\ call.outcome = "Succeeded"
    /\ call.used = api.tts_model

====
